---- MODULE Spec2Model ----
(***************************************************************************)
(* State-machine model of src/calculadora.py (class Calculadora and main). *)
(*                                                                         *)
(* A step of the model is what the program does between two reads of       *)
(* standard input: the line read is the variable `entrada`, the position   *)
(* of the program (which input() call it is blocked in) is `pc`.           *)
(*                                                                         *)
(* Python numbers are modelled as tagged exact rationals                   *)
(*   [t |-> "int" | "float", n |-> numerator, d |-> denominator > 0]       *)
(* in lowest terms; the tag follows Python's int/float typing rules.       *)
(* Text is modelled as a sequence of one-character strings.                *)
(***************************************************************************)
EXTENDS Integers, Sequences, FiniteSets, TLC

VARIABLES
    memoria,            \* self._memoria
    ultimo_resultado,   \* self._ultimo_resultado (None or a number)
    historico,          \* self._historico: list of entry dicts
    total_operacoes,    \* self._total_operacoes
    pc,                 \* the input() call the program is blocked in
    args,               \* operands already read by the running handler
    entrada,            \* the last line read from standard input
    saida,              \* the last message printed by a handler
    relogio,            \* the wall clock, in seconds
    prox_id,            \* identity of the next dict object allocated
    snapshot,           \* a list obtained by a caller from the historico property
    h_log,              \* history variable: the entries of the operations completed
                        \*   since the history was last emptied
    h_ok                \* history variable: operations completed since the last reset

vars == <<memoria, ultimo_resultado, historico, total_operacoes, pc, args,
          entrada, saida, relogio, prox_id, snapshot, h_log, h_ok>>

(***************************************************************************)
(* Bounds of the model.                                                    *)
(***************************************************************************)
MaxOps    == 2     \* operations completed in one run of Spec
MaxNum    == 16    \* largest numerator magnitude / denominator kept
MaxClock  == 2     \* seconds the clock can advance
MaxAppends == 60   \* operations completed in one run of SpecHist
MaxSnapOps == 2    \* operations completed in one run of SpecSnap
MaxMemOps  == 1    \* operations completed in one run of SpecMem
MaxMem     == 4    \* largest magnitude of the memory in SpecMem
MaxExprOps == 2    \* expressions evaluated in one run of SpecExpr
MaxUltOps  == 52   \* operations completed in one run of SpecUlt

(***************************************************************************)
(* Python numbers.                                                         *)
(***************************************************************************)
None == [t |-> "none", n |-> 0, d |-> 1]

Abs(i) == IF i < 0 THEN -i ELSE i

RECURSIVE GCD(_, _)
GCD(a, b) == IF b = 0 THEN a ELSE GCD(b, a % b)

\* A number of type t with value n/d (d # 0), in lowest terms.
Mk(t, n, d) ==
    LET s == IF d < 0 THEN -1 ELSE 1
        g == GCD(Abs(n), Abs(d))
    IN  [t |-> t, n |-> (s * n) \div g, d |-> (s * d) \div g]

IntV(i)      == [t |-> "int", n |-> i, d |-> 1]
FloatV(n, d) == Mk("float", n, d)

IsNone(v)  == v.t = "none"
IsWhole(v) == v.d = 1                      \* float.is_integer() / an int
NumLt(a, b) == a.n * b.d < b.n * a.d       \* a < b
IsZero(v)  == v.n = 0

\* Type of the result of a binary arithmetic operator (+ - * % **).
ResT(a, b) == IF a.t = "int" /\ b.t = "int" THEN "int" ELSE "float"

\* floor(n / d) for d # 0.
FloorDiv(n, d) == IF d > 0 THEN n \div d ELSE (-n) \div (-d)

PyAdd(a, b) == Mk(ResT(a, b), a.n * b.d + b.n * a.d, a.d * b.d)
PySub(a, b) == Mk(ResT(a, b), a.n * b.d - b.n * a.d, a.d * b.d)
PyMul(a, b) == Mk(ResT(a, b), a.n * b.n, a.d * b.d)
\* a / b, b # 0: true division, always a float.
PyTrueDiv(a, b) == Mk("float", a.n * b.d, a.d * b.n)
\* a % b, b # 0: the result takes the sign of the divisor.
PyMod(a, b) ==
    LET q == FloorDiv(a.n * b.d, a.d * b.n)
    IN  Mk(ResT(a, b), a.n * b.d - q * b.n * a.d, a.d * b.d)

RECURSIVE IPow(_, _)
IPow(b, e) == IF e = 0 THEN 1 ELSE b * IPow(b, e - 1)

\* base ** expoente for a whole exponent; ZeroDivisionError when 0 ** negative.
PowRaises(a, b) == IsZero(a) /\ b.n < 0
PyPow(a, b) ==
    IF b.n >= 0
    THEN Mk(ResT(a, b), IPow(a.n, b.n), IPow(a.d, b.n))
    ELSE Mk("float", IPow(a.d, -b.n), IPow(a.n, -b.n))

\* int(x): truncation towards zero.
PyInt(v) == IntV(IF v.n >= 0 THEN v.n \div v.d ELSE -((-v.n) \div v.d))

\* math.sqrt(x) for x >= 0 a perfect square of a rational: always a float.
IsSquareInt(k) == \E r \in 0..k : r * r = k
ISqrt(k) == CHOOSE r \in 0..k : r * r = k
HasSqrt(v) == v.n >= 0 /\ IsSquareInt(v.n) /\ IsSquareInt(v.d)
MathSqrt(v) == Mk("float", ISqrt(v.n), ISqrt(v.d))

\* math.factorial(n), n >= 0 an int.
RECURSIVE Fact(_)
Fact(k) == IF k <= 1 THEN 1 ELSE k * Fact(k - 1)
MathFactorial(v) == IntV(Fact(v.n))

\* The numbers the model keeps (larger results are outside its bounds).
\* They are dyadic: on these IEEE-754 arithmetic is exact, as the rationals are.
IsPow2(k) == k \in {1, 2, 4, 8, 16, 32, 64}
Cabe(v) == Abs(v.n) <= MaxNum /\ v.d <= MaxNum /\ IsPow2(v.d)

(***************************************************************************)
(* Text: sequences of one-character strings.                               *)
(***************************************************************************)
DigitCh(k) == <<"0", "1", "2", "3", "4", "5", "6", "7", "8", "9">>[k + 1]

RECURSIVE NatChars(_)
NatChars(k) == IF k < 10 THEN <<DigitCh(k)>>
               ELSE NatChars(k \div 10) \o <<DigitCh(k % 10)>>

\* str(i) for an int i.
IntChars(i) == IF i < 0 THEN <<"-">> \o NatChars(-i) ELSE NatChars(i)

\* The first k digits after the point of r/d (0 <= r < d), and what is left.
RECURSIVE FracDigits(_, _, _)
FracDigits(r, d, k) ==
    IF k = 0 THEN <<>>
    ELSE <<(r * 10) \div d>> \o FracDigits((r * 10) % d, d, k - 1)

RECURSIVE FracRem(_, _, _)
FracRem(r, d, k) == IF k = 0 THEN r ELSE FracRem((r * 10) % d, d, k - 1)

\* digits + 1 in the last place: <<carry out, digits>>.
RECURSIVE IncDigits(_)
IncDigits(ds) ==
    IF ds = <<>> THEN <<1, <<>>>>
    ELSE LET last == ds[Len(ds)]
             front == SubSeq(ds, 1, Len(ds) - 1)
         IN  IF last < 9 THEN <<0, Append(front, last + 1)>>
             ELSE LET r == IncDigits(front) IN <<r[1], Append(r[2], 0)>>

\* rstrip('0') on a list of digits.
RECURSIVE StripZeros(_)
StripZeros(ds) ==
    IF ds # <<>> /\ ds[Len(ds)] = 0 THEN StripZeros(SubSeq(ds, 1, Len(ds) - 1))
    ELSE ds

DigitsChars(ds) == [i \in 1..Len(ds) |-> DigitCh(ds[i])]

\* f"{num:.10f}".rstrip('0').rstrip('.') for a float num.
Fixed10(v) ==
    LET a     == Abs(v.n)
        ip    == a \div v.d
        ds    == FracDigits(a % v.d, v.d, 10)
        rem   == FracRem(a % v.d, v.d, 10)
        up    == 2 * rem > v.d \/ (2 * rem = v.d /\ ds[10] % 2 = 1)
        inc   == IF up THEN IncDigits(ds) ELSE <<0, ds>>
        ip2   == ip + inc[1]
        fr    == StripZeros(inc[2])
        sign  == IF v.n < 0 THEN <<"-">> ELSE <<>>
    IN  sign \o NatChars(ip2) \o
        (IF fr = <<>> THEN <<>> ELSE <<".">> \o DigitsChars(fr))

\* Calculadora._formatar_numero
FormatarNumero(v) ==
    IF v.t = "int" THEN IntChars(v.n)
    ELSE IF IsWhole(v) THEN IntChars(v.n)
    ELSE Fixed10(v)

(***************************************************************************)
(* Reading a number: Calculadora._obter_numero, one pass of its loop.      *)
(***************************************************************************)
\* The lines the user types at a number prompt (already stripped).
Numerais == {"-1", "0", "1", "2", "3", "21", "100", "0.5", "2.0", "-0.5"}

\* float(entrada) for the numerals above.
PyFloatDe(e) ==
    CASE e = "-1"   -> FloatV(-1, 1)
      [] e = "0"    -> FloatV(0, 1)
      [] e = "1"    -> FloatV(1, 1)
      [] e = "2"    -> FloatV(2, 1)
      [] e = "3"    -> FloatV(3, 1)
      [] e = "21"   -> FloatV(21, 1)
      [] e = "100"  -> FloatV(100, 1)
      [] e = "0.5"  -> FloatV(1, 2)
      [] e = "2.0"  -> FloatV(2, 1)
      [] e = "-0.5" -> FloatV(-1, 2)

\* entrada.upper() for the one-letter lines.
Upper(e) == CASE e = "m" -> "M" [] e = "u" -> "U" [] e = "e" -> "E"
              [] e = "c" -> "C" [] e = "r" -> "R" [] e = "h" -> "H"
              [] e = "s" -> "S" [] e = "g" -> "G" [] OTHER -> e

\* Variant: with no result yet, U is read as 0 (as in an expression).
ObterNumero_USemResultadoZero(e) ==
    IF Upper(e) = "M" THEN memoria
    ELSE IF Upper(e) = "U"
         THEN (IF IsNone(ultimo_resultado) THEN IntV(0) ELSE ultimo_resultado)
    ELSE IF e \in Numerais
         THEN LET num == PyFloatDe(e)
              IN  IF IsWhole(num) THEN PyInt(num) ELSE num
         ELSE None

\* The value one pass of the loop returns, or None when it prints the error
\* and asks again (float() raised ValueError).
ObterNumero(e) ==
    IF Upper(e) = "M" THEN memoria
    ELSE IF Upper(e) = "U" /\ ~IsNone(ultimo_resultado) THEN ultimo_resultado
    ELSE IF e \in Numerais
         THEN LET num == PyFloatDe(e)
              IN  IF IsWhole(num) THEN PyInt(num) ELSE num
         ELSE None

(***************************************************************************)
(* The history: Calculadora._adicionar_ao_historico.                       *)
(***************************************************************************)
max_historico == 50

\* Variant: the limit is tested one element too late.
AppendLimitado_UmAMais(h, e) ==
    LET h1 == Append(h, e)
    IN  IF Len(h1) > max_historico + 1 THEN Tail(h1) ELSE h1

\* Variant: pop() instead of pop(0).
AppendLimitado_PopUltimo(h, e) ==
    LET h1 == Append(h, e)
    IN  IF Len(h1) > max_historico THEN SubSeq(h1, 1, Len(h1) - 1) ELSE h1

\* self._historico.append(entrada), then pop(0) when the list is too long.
AppendLimitado(h, e) ==
    LET h1 == Append(h, e)
    IN  IF Len(h1) > max_historico THEN Tail(h1) ELSE h1

\* Variant: the counter stops at the capacity of the history.
ProximoTotal_Satura(total) == IF total >= max_historico THEN total ELSE total + 1

\* self._total_operacoes += 1
ProximoTotal(total) == total + 1

\* The dict the method builds; `agora` is what datetime.now() returns.
NovaEntrada(expressao, resultado, tipo, agora) ==
    [id |-> prox_id, timestamp |-> agora, expressao |-> expressao,
     resultado |-> resultado, tipo |-> tipo]

\* Variant: the last result is not updated.
AdicionarAoHistorico_SemUltimo(expressao, resultado, tipo) ==
    LET e == NovaEntrada(expressao, resultado, tipo, relogio)
    IN  /\ historico' = AppendLimitado(historico, e)
        /\ total_operacoes' = ProximoTotal(total_operacoes)
        /\ prox_id' = prox_id + 1
        /\ UNCHANGED <<relogio, ultimo_resultado>>

\* Variant: the last result is taken from the first entry of the list.
AdicionarAoHistorico_UltimoDoInicio(expressao, resultado, tipo) ==
    LET e == NovaEntrada(expressao, resultado, tipo, relogio)
    IN  /\ historico' = AppendLimitado(historico, e)
        /\ ultimo_resultado' = AppendLimitado(historico, e)[1].resultado
        /\ total_operacoes' = ProximoTotal(total_operacoes)
        /\ prox_id' = prox_id + 1
        /\ UNCHANGED relogio

AdicionarAoHistorico(expressao, resultado, tipo) ==
    LET e == NovaEntrada(expressao, resultado, tipo, relogio)
    IN  /\ historico' = AppendLimitado(historico, e)
        /\ ultimo_resultado' = resultado
        /\ total_operacoes' = ProximoTotal(total_operacoes)
        /\ prox_id' = prox_id + 1
        /\ UNCHANGED relogio

(***************************************************************************)
(* Initial state: Calculadora.__init__, then executar() blocked in the     *)
(* menu prompt.                                                            *)
(***************************************************************************)
Msg(m)        == [msg |-> m, texto |-> <<>>]
MsgTexto(m, t) == [msg |-> m, texto |-> t]

Init ==
    /\ memoria = FloatV(0, 1)
    /\ ultimo_resultado = None
    /\ historico = <<>>
    /\ total_operacoes = 0
    /\ pc = "menu"
    /\ args = <<>>
    /\ entrada = ""
    /\ saida = Msg("menu")
    /\ relogio = 0
    /\ prox_id = 0
    /\ snapshot = <<>>
    /\ h_log = <<>>
    /\ h_ok = 0

(***************************************************************************)
(* Steps shared by the operation handlers.                                 *)
(***************************************************************************)
\* A pass of an input loop that prints an error and asks again.
Rejeita(m) ==
    /\ saida' = Msg(m)
    /\ UNCHANGED <<memoria, ultimo_resultado, historico, total_operacoes, pc,
                   args, relogio, prox_id, snapshot, h_log, h_ok>>

\* An operand is accepted and the handler goes on to its next prompt.
Guarda(v) ==
    /\ args' = Append(args, v)
    /\ saida' = Msg("")
    /\ UNCHANGED <<memoria, ultimo_resultado, historico, total_operacoes, pc,
                   relogio, prox_id, snapshot, h_log, h_ok>>

\* The tail of every handler: record the operation, print the result, and
\* block in "Pressione Enter para continuar...".
Conclui(expressao, resultado, tipo, mostrado) ==
    /\ Cabe(resultado)
    /\ AdicionarAoHistorico(expressao, resultado, tipo)
    /\ h_log' = Append(h_log, NovaEntrada(expressao, resultado, tipo, relogio))
    /\ h_ok' = h_ok + 1
    /\ pc' = "pausa"
    /\ args' = <<>>
    /\ saida' = MsgTexto("RESULTADO", expressao \o <<" ", "=", " ">> \o mostrado)
    /\ UNCHANGED <<memoria, snapshot>>

\* The entry is recorded, then _formatar_numero raises on a result that is
\* not a number (a tuple, None): the handler prints the error for an invalid expression.
RegistraEFalha(expressao, resultado, tipo) ==
    /\ AdicionarAoHistorico(expressao, resultado, tipo)
    /\ pc' = "pausa"
    /\ args' = <<>>
    /\ saida' = Msg("ERRO: Expressao invalida!")
    /\ UNCHANGED <<memoria, snapshot, h_log, h_ok>>

\* A handler that only prints, then blocks in "Pressione Enter...".
SoImprime(m) ==
    /\ pc' = "pausa"
    /\ saida' = Msg(m)
    /\ UNCHANGED <<memoria, ultimo_resultado, historico, total_operacoes,
                   args, relogio, prox_id, snapshot, h_log, h_ok>>

\* An exception no handler catches: main() prints it and the program ends.
Aborta(m) ==
    /\ pc' = "done"
    /\ saida' = Msg(m)
    /\ UNCHANGED <<memoria, ultimo_resultado, historico, total_operacoes,
                   args, relogio, prox_id, snapshot, h_log, h_ok>>

ErroNumero == "ERRO: Digite um numero valido!"
ErroZero   == "ERRO: Nao e possivel dividir por zero!"
ErroRaiz   == "ERRO: Nao existe raiz quadrada de numero negativo!"
ErroFat    == "ERRO: Fatorial nao definido para numeros negativos!"
AvisoFat   == "AVISO: Numero muito grande para calculo preciso!"

\* Non-ASCII signs of the source, each one character there.
Vezes    == "(times)"
Dividido == "(div)"
Raiz     == "(sqrt)"

(***************************************************************************)
(* The operation handlers, one step per line read.                         *)
(***************************************************************************)
Somar(e) ==
    /\ pc = "somar"
    /\ entrada' = e
    /\ LET v == ObterNumero(e)
       IN  IF IsNone(v) THEN Rejeita(ErroNumero)
           ELSE IF Len(args) = 0 THEN Guarda(v)
           ELSE LET a == args[1]
                    b == v
                    resultado == PyAdd(a, b)
                    expressao == FormatarNumero(a) \o <<" ", "+", " ">> \o FormatarNumero(b)
                IN  Conclui(expressao, resultado, "Soma", FormatarNumero(resultado))

Subtrair(e) ==
    /\ pc = "subtrair"
    /\ entrada' = e
    /\ LET v == ObterNumero(e)
       IN  IF IsNone(v) THEN Rejeita(ErroNumero)
           ELSE IF Len(args) = 0 THEN Guarda(v)
           ELSE LET a == args[1]
                    b == v
                    resultado == PySub(a, b)
                    expressao == FormatarNumero(a) \o <<" ", "-", " ">> \o FormatarNumero(b)
                IN  Conclui(expressao, resultado, "Subtracao", FormatarNumero(resultado))

Multiplicar(e) ==
    /\ pc = "multiplicar"
    /\ entrada' = e
    /\ LET v == ObterNumero(e)
       IN  IF IsNone(v) THEN Rejeita(ErroNumero)
           ELSE IF Len(args) = 0 THEN Guarda(v)
           ELSE LET a == args[1]
                    b == v
                    resultado == PyMul(a, b)
                    expressao == FormatarNumero(a) \o <<" ", Vezes, " ">> \o FormatarNumero(b)
                IN  Conclui(expressao, resultado, "Multiplicacao", FormatarNumero(resultado))

\* Variant: a zero denominator is recorded as a result of 0.
Dividir_ZeroComoResultado(e) ==
    /\ pc = "dividir"
    /\ entrada' = e
    /\ LET v == ObterNumero(e)
       IN  IF IsNone(v) THEN Rejeita(ErroNumero)
           ELSE IF Len(args) = 0 THEN Guarda(v)
           ELSE LET a == args[1]
                    b == v
                    resultado == IF IsZero(b) THEN FloatV(0, 1) ELSE PyTrueDiv(a, b)
                    expressao == FormatarNumero(a) \o <<" ", Dividido, " ">> \o FormatarNumero(b)
                IN  Conclui(expressao, resultado, "Divisao", FormatarNumero(resultado))

Dividir(e) ==
    /\ pc = "dividir"
    /\ entrada' = e
    /\ LET v == ObterNumero(e)
       IN  IF IsNone(v) THEN Rejeita(ErroNumero)
           ELSE IF Len(args) = 0 THEN Guarda(v)
           ELSE IF IsZero(v) THEN Rejeita(ErroZero)
           ELSE LET a == args[1]
                    b == v
                    resultado == PyTrueDiv(a, b)
                    expressao == FormatarNumero(a) \o <<" ", Dividido, " ">> \o FormatarNumero(b)
                IN  Conclui(expressao, resultado, "Divisao", FormatarNumero(resultado))

RestoDivisao(e) ==
    /\ pc = "resto"
    /\ entrada' = e
    /\ LET v == ObterNumero(e)
       IN  IF IsNone(v) THEN Rejeita(ErroNumero)
           ELSE IF Len(args) = 0 THEN Guarda(PyInt(v))
           ELSE IF IsZero(PyInt(v)) THEN Rejeita(ErroZero)
           ELSE LET a == args[1]
                    b == PyInt(v)
                    resultado == PyMod(a, b)
                    expressao == IntChars(a.n) \o <<" ", "%", " ">> \o IntChars(b.n)
                IN  Conclui(expressao, resultado, "Resto Divisao", IntChars(resultado.n))

\* Exponents are whole numbers in the model (others give irrational or
\* complex results, which the numbers of the model do not hold).
Potencia(e) ==
    /\ pc = "potencia"
    /\ entrada' = e
    /\ LET v == ObterNumero(e)
       IN  IF IsNone(v) THEN Rejeita(ErroNumero)
           ELSE IF Len(args) = 0 THEN Guarda(v)
           ELSE LET base == args[1]
                    expoente == v
                IN  /\ IsWhole(expoente)
                    /\ Abs(expoente.n) <= MaxNum
                    /\ IF PowRaises(base, expoente)
                       THEN Aborta("Erro inesperado: ZeroDivisionError")
                       ELSE LET resultado == PyPow(base, expoente)
                                expressao == FormatarNumero(base) \o <<" ", "^", " ">>
                                             \o FormatarNumero(expoente)
                            IN  Conclui(expressao, resultado, "Potencia",
                                        FormatarNumero(resultado))

\* The radicand is the square of a rational in the model.
RaizQuadrada(e) ==
    /\ pc = "raiz"
    /\ entrada' = e
    /\ LET v == ObterNumero(e)
       IN  IF IsNone(v) THEN Rejeita(ErroNumero)
           ELSE IF NumLt(v, IntV(0)) THEN Rejeita(ErroRaiz)
           ELSE /\ HasSqrt(v)
                /\ LET numero == v
                       resultado == MathSqrt(numero)
                       expressao == <<Raiz>> \o FormatarNumero(numero)
                   IN  Conclui(expressao, resultado, "Raiz Quadrada",
                               FormatarNumero(resultado))

Porcentagem(e) ==
    /\ pc = "porcentagem"
    /\ entrada' = e
    /\ LET v == ObterNumero(e)
       IN  IF IsNone(v) THEN Rejeita(ErroNumero)
           ELSE IF Len(args) = 0 THEN Guarda(v)
           ELSE LET valor == args[1]
                    percentual == v
                    resultado == PyTrueDiv(PyMul(valor, percentual), IntV(100))
                    expressao == FormatarNumero(valor) \o <<"%", " ", "d", "e", " ">>
                                 \o FormatarNumero(percentual)
                IN  Conclui(expressao, resultado, "Porcentagem", FormatarNumero(resultado))

\* Variant: after the warning the handler gives up instead of asking again.
Fatorial_AvisoSai(e) ==
    /\ pc = "fatorial"
    /\ entrada' = e
    /\ LET v == ObterNumero(e)
       IN  IF IsNone(v) THEN Rejeita(ErroNumero)
           ELSE LET n == PyInt(v)
                IN  IF n.n < 0 THEN Rejeita(ErroFat)
                    ELSE IF n.n > 20 THEN SoImprime(AvisoFat)
                    ELSE /\ n.n <= 12
                         /\ LET resultado == MathFactorial(n)
                                expressao == IntChars(n.n) \o <<"!">>
                            IN  Conclui(expressao, resultado, "Fatorial",
                                        IntChars(resultado.n))

\* Variant: the test for a negative operand is off by one.
Fatorial_MenosUm(e) ==
    /\ pc = "fatorial"
    /\ entrada' = e
    /\ LET v == ObterNumero(e)
       IN  IF IsNone(v) THEN Rejeita(ErroNumero)
           ELSE LET n == PyInt(v)
                IN  IF n.n < -1 THEN Rejeita(ErroFat)
                    ELSE IF n.n > 20 THEN Rejeita(AvisoFat)
                    ELSE /\ n.n <= 12
                         /\ LET resultado == MathFactorial(n)
                                expressao == IntChars(n.n) \o <<"!">>
                            IN  Conclui(expressao, resultado, "Fatorial",
                                        IntChars(resultado.n))

Fatorial(e) ==
    /\ pc = "fatorial"
    /\ entrada' = e
    /\ LET v == ObterNumero(e)
       IN  IF IsNone(v) THEN Rejeita(ErroNumero)
           ELSE LET n == PyInt(v)
                IN  IF n.n < 0 THEN Rejeita(ErroFat)
                    ELSE IF n.n > 20 THEN Rejeita(AvisoFat)
                    ELSE /\ n.n <= 12       \* 13! does not fit the integers of TLC
                         /\ LET resultado == MathFactorial(n)
                                expressao == IntChars(n.n) \o <<"!">>
                            IN  Conclui(expressao, resultado, "Fatorial",
                                        IntChars(resultado.n))

(***************************************************************************)
(* Calculadora.calcular_expressao: the text of the expression.             *)
(***************************************************************************)
\* The lines typed at the expression prompt, as characters.
LinhaChars(e) ==
    CASE e = ""          -> <<>>
      [] e = "  "        -> <<" ", " ">>
      [] e = "2 + 3 * 4" -> <<"2", " ", "+", " ", "3", " ", "*", " ", "4">>
      [] e = "1 + 1"     -> <<"1", " ", "+", " ", "1">>
      [] e = "5 / 0"     -> <<"5", " ", "/", " ", "0">>
      [] e = "5 % 0"     -> <<"5", " ", "%", " ", "0">>
      [] e = "2 ^ 3"     -> <<"2", " ", "^", " ", "3">>
      [] e = "2 ** 2"    -> <<"2", " ", "*", "*", " ", "2">>
      [] e = "2 ^ 3 ^ 2" -> <<"2", " ", "^", " ", "3", " ", "^", " ", "2">>
      [] e = "8 - 4 - 2" -> <<"8", " ", "-", " ", "4", " ", "-", " ", "2">>
      [] e = "8 / 4 / 2" -> <<"8", " ", "/", " ", "4", " ", "/", " ", "2">>
      [] e = "(1 + 1) * 2" -> <<"(", "1", " ", "+", " ", "1", ")", " ", "*", " ", "2">>
      [] e = "M + 1"     -> <<"M", " ", "+", " ", "1">>
      [] e = "M ^ 2"     -> <<"M", " ", "^", " ", "2">>
      [] e = "U + 1"     -> <<"U", " ", "+", " ", "1">>
      [] e = "U * U"     -> <<"U", " ", "*", " ", "U">>
      [] e = "1M"        -> <<"1", "M">>
      [] e = "2 +"       -> <<"2", " ", "+">>
      [] e = "abc"       -> <<"a", "b", "c">>
      [] e = "()"        -> <<"(", ")">>
      [] e = "None"      -> <<"N", "o", "n", "e">>
      [] e = "1, 2"      -> <<"1", ",", " ", "2">>
      [] e = "U ^ 2"     -> <<"U", " ", "^", " ", "2">>
      [] e = "1 - 2"     -> <<"1", " ", "-", " ", "2">>
      [] e = "8 % 5 % 2" -> <<"8", " ", "%", " ", "5", " ", "%", " ", "2">>
      [] e = "8 - 4 + 2" -> <<"8", " ", "-", " ", "4", " ", "+", " ", "2">>
      [] e = "8 / 4 * 2" -> <<"8", " ", "/", " ", "4", " ", "*", " ", "2">>
      [] e = "2 ^ 1 ^ 2" -> <<"2", " ", "^", " ", "1", " ", "^", " ", "2">>
      [] e = " 2 * 2 "   -> <<" ", "2", " ", "*", " ", "2", " ">>

\* str.strip()
RECURSIVE LStrip(_)
LStrip(cs) == IF cs # <<>> /\ cs[1] = " " THEN LStrip(Tail(cs)) ELSE cs
RECURSIVE RStrip(_)
RStrip(cs) == IF cs # <<>> /\ cs[Len(cs)] = " "
              THEN RStrip(SubSeq(cs, 1, Len(cs) - 1)) ELSE cs
Strip(cs) == RStrip(LStrip(cs))

\* cs.replace(c, por) for a one-character c.
RECURSIVE ReplaceChar(_, _, _)
ReplaceChar(cs, c, por) ==
    IF cs = <<>> THEN <<>>
    ELSE (IF cs[1] = c THEN por ELSE <<cs[1]>>) \o ReplaceChar(Tail(cs), c, por)

\* cs.replace('**', '^'): leftmost occurrences, not overlapping.
RECURSIVE ReplaceStarStar(_)
ReplaceStarStar(cs) ==
    IF cs = <<>> THEN <<>>
    ELSE IF Len(cs) >= 2 /\ cs[1] = "*" /\ cs[2] = "*"
         THEN <<"^">> \o ReplaceStarStar(SubSeq(cs, 3, Len(cs)))
         ELSE <<cs[1]>> \o ReplaceStarStar(Tail(cs))

\* str(x) of a number: an int, or the repr of a float (exact for the
\* dyadic numbers of the model).
RECURSIVE PyStr(_)
PyStr(v) ==
    IF v.t = "int" THEN IntChars(v.n)
    ELSE IF v.t = "none" THEN <<"N", "o", "n", "e">>
    ELSE IF v.t = "tuple"
    THEN IF Len(v.itens) = 0 THEN <<"(", ")">>
         ELSE IF Len(v.itens) = 1 THEN <<"(">> \o PyStr(v.itens[1]) \o <<",", ")">>
         ELSE LET frente == [t |-> "tuple", n |-> 0, d |-> 1,
                             itens |-> SubSeq(v.itens, 1, Len(v.itens) - 1)]
                  f == PyStr(frente)
                  corpo == IF Len(frente.itens) = 1 THEN SubSeq(f, 1, Len(f) - 2)
                           ELSE SubSeq(f, 1, Len(f) - 1)
              IN  corpo \o <<",", " ">> \o PyStr(v.itens[Len(v.itens)]) \o <<")">>
    ELSE LET a    == Abs(v.n)
             fr   == StripZeros(FracDigits(a % v.d, v.d, 12))
             sign == IF v.n < 0 THEN <<"-">> ELSE <<>>
         IN  sign \o NatChars(a \div v.d) \o <<".">> \o
             (IF fr = <<>> THEN <<"0">> ELSE DigitsChars(fr))

(***************************************************************************)
(* eval(expressao), for the arithmetic expressions of Python:              *)
(*   eval   ::= list                                                       *)
(*   expr   ::= term (("+" | "-") term)*                                   *)
(*   term   ::= factor (("*" | "/" | "//" | "%") factor)*                  *)
(*   factor ::= ("+" | "-") factor | power                                 *)
(*   power  ::= atom ["**" factor]                                         *)
(*   atom   ::= NUMBER | "None" | "(" ")" | "(" list ")"                   *)
(*   list   ::= expr ("," expr)* [","]          (a tuple when it has a ",") *)
(* Any other text is a SyntaxError (or a NameError): an invalid expression.*)
(***************************************************************************)
Digitos == {"0", "1", "2", "3", "4", "5", "6", "7", "8", "9"}
DigitVal(c) == CHOOSE k \in 0..9 : DigitCh(k) = c

\* The characters of a name.
Letras ==
    {"a", "b", "c", "d", "e", "f", "g", "h", "i", "j", "k", "l",
     "m", "n", "o", "p", "q", "r", "s", "t", "u", "v", "w", "x",
     "y", "z", "A", "B", "C", "D", "E", "F", "G", "H", "I", "J",
     "K", "L", "M", "N", "O", "P", "Q", "R", "S", "T", "U", "V",
     "W", "X", "Y", "Z"}
IdentChar(c) == c \in Letras \cup Digitos \cup {"_"}

\* The name None stands at i, and is not the start of a longer name.
NomeNone(cs, i) ==
    /\ i + 3 <= Len(cs)
    /\ SubSeq(cs, i, i + 3) = <<"N", "o", "n", "e">>
    /\ i + 4 <= Len(cs) => ~IdentChar(cs[i + 4])

BadTok     == [k |-> "bad", s |-> "", v |-> None]
OpTok(s)   == [k |-> "op", s |-> s, v |-> None]
NumTok(v)  == [k |-> "num", s |-> "", v |-> v]

\* The end of the run of digits and points that starts at i.
RECURSIVE NumEnd(_, _)
NumEnd(cs, i) ==
    IF i < Len(cs) /\ cs[i + 1] \in Digitos \cup {"."} THEN NumEnd(cs, i + 1) ELSE i

RECURSIVE DigitsVal(_)
DigitsVal(ds) == IF ds = <<>> THEN 0
                 ELSE 10 * DigitsVal(SubSeq(ds, 1, Len(ds) - 1)) + DigitVal(ds[Len(ds)])

\* A decimal literal: digits, at most one point, not a lone point; an
\* integer literal does not start with 0 unless it is all zeros.
Literal(lit) ==
    LET pts  == {i \in 1..Len(lit) : lit[i] = "."}
    IN  IF Cardinality(pts) > 1 \/ Len(lit) = Cardinality(pts) THEN BadTok
        ELSE IF pts = {}
        THEN IF Len(lit) > 1 /\ lit[1] = "0" /\ DigitsVal(lit) # 0 THEN BadTok
             ELSE NumTok(IntV(DigitsVal(lit)))
        ELSE LET p  == CHOOSE i \in pts : TRUE
                 ip == SubSeq(lit, 1, p - 1)
                 fp == SubSeq(lit, p + 1, Len(lit))
             IN  NumTok(FloatV(DigitsVal(ip \o fp), IPow(10, Len(fp))))

RECURSIVE Tokens(_, _)
Tokens(cs, i) ==
    IF i > Len(cs) THEN <<>>
    ELSE LET c == cs[i]
             c2 == IF i < Len(cs) THEN cs[i + 1] ELSE ""
         IN  IF c = " " THEN Tokens(cs, i + 1)
             ELSE IF c \in Digitos \cup {"."}
                  THEN LET j == NumEnd(cs, i)
                       IN  <<Literal(SubSeq(cs, i, j))>> \o Tokens(cs, j + 1)
             ELSE IF NomeNone(cs, i) THEN <<NumTok(None)>> \o Tokens(cs, i + 4)
             ELSE IF c = "*" /\ c2 = "*" THEN <<OpTok("**")>> \o Tokens(cs, i + 2)
             ELSE IF c = "/" /\ c2 = "/" THEN <<OpTok("//")>> \o Tokens(cs, i + 2)
             ELSE IF c \in {"+", "-", "*", "/", "%", "(", ")", ","}
                  THEN <<OpTok(c)>> \o Tokens(cs, i + 1)
             ELSE <<BadTok>> \o Tokens(cs, i + 1)

\* Results of the evaluator: e is "ok", "zero" (ZeroDivisionError), "syntax"
\* (SyntaxError or NameError, raised before anything is evaluated), "type"
\* (TypeError) or "fora" (a value outside the numbers of the model).
Res(v, p, e) == [v |-> v, p |-> p, e |-> e]

\* A tuple object: what eval returns for "()" or "1, 2".
Tuplo(itens) == [t |-> "tuple", n |-> 0, d |-> 1, itens |-> itens]
IsTuplo(v)   == v.t = "tuple"

RECURSIVE Repete(_, _)
Repete(itens, k) == IF k <= 0 THEN <<>> ELSE itens \o Repete(itens, k - 1)

\* A binary operator with a tuple or None as an operand: concatenation,
\* repetition, or a TypeError.
AplicaTuplo(op, a, b) ==
    IF op = "+" /\ IsTuplo(a) /\ IsTuplo(b)
    THEN [v |-> Tuplo(a.itens \o b.itens), e |-> "ok"]
    ELSE IF op = "*" /\ IsTuplo(a) /\ b.t = "int"
    THEN IF b.n > MaxNum THEN [v |-> None, e |-> "fora"]
         ELSE [v |-> Tuplo(Repete(a.itens, b.n)), e |-> "ok"]
    ELSE IF op = "*" /\ a.t = "int" /\ IsTuplo(b)
    THEN IF a.n > MaxNum THEN [v |-> None, e |-> "fora"]
         ELSE [v |-> Tuplo(Repete(b.itens, a.n)), e |-> "ok"]
    ELSE [v |-> None, e |-> "type"]

\* A binary operator applied to two numbers.
AplicaNumeros(op, a, b) ==
    CASE op = "+"  -> [v |-> PyAdd(a, b), e |-> "ok"]
      [] op = "-"  -> [v |-> PySub(a, b), e |-> "ok"]
      [] op = "*"  -> [v |-> PyMul(a, b), e |-> "ok"]
      [] op = "/"  -> IF IsZero(b) THEN [v |-> None, e |-> "zero"]
                      ELSE [v |-> PyTrueDiv(a, b), e |-> "ok"]
      [] op = "%"  -> IF IsZero(b) THEN [v |-> None, e |-> "zero"]
                      ELSE [v |-> PyMod(a, b), e |-> "ok"]
      [] op = "//" -> IF IsZero(b) THEN [v |-> None, e |-> "zero"]
                      ELSE [v |-> Mk(ResT(a, b), FloorDiv(a.n * b.d, a.d * b.n), 1),
                            e |-> "ok"]
      [] op = "**" -> IF ~IsWhole(b) \/ Abs(b.n) > MaxNum THEN [v |-> None, e |-> "fora"]
                      ELSE IF PowRaises(a, b) THEN [v |-> None, e |-> "zero"]
                      ELSE [v |-> PyPow(a, b), e |-> "ok"]

Aplica(op, a, b) ==
    IF IsTuplo(a) \/ IsTuplo(b) \/ IsNone(a) \/ IsNone(b) THEN AplicaTuplo(op, a, b)
    ELSE AplicaNumeros(op, a, b)

\* Variant: the operands reach the operator in the wrong order.
Junta_Trocado(op, l, r) ==
    IF r.e = "syntax" THEN Res(None, r.p, "syntax")
    ELSE IF l.e # "ok" THEN Res(None, r.p, l.e)
    ELSE IF r.e # "ok" THEN Res(None, r.p, r.e)
    ELSE LET x == Aplica(op, r.v, l.v) IN Res(x.v, r.p, x.e)

\* Python compiles the whole text before it evaluates anything: a syntax
\* error to the right wins over an exception raised on the left.
Junta(op, l, r) ==
    IF r.e = "syntax" THEN Res(None, r.p, "syntax")
    ELSE IF l.e # "ok" THEN Res(None, r.p, l.e)
    ELSE IF r.e # "ok" THEN Res(None, r.p, r.e)
    ELSE LET x == Aplica(op, l.v, r.v) IN Res(x.v, r.p, x.e)

IsOp(ts, p, ops) == p <= Len(ts) /\ ts[p].k = "op" /\ ts[p].s \in ops

\* The recursive-descent evaluator.  Parse(nt, ts, a) evaluates nonterminal
\* nt of the token list ts; a is the position it starts at, or, for the
\* tails of expr and term, the result [v, p, e] of what is to the left.
RECURSIVE Parse(_, _, _)
Parse(nt, ts, a) ==
    CASE nt = "testlist" ->
            LET l == Parse("expr", ts, a)
            IN  IF l.e = "syntax" THEN l
                ELSE IF IsOp(ts, l.p, {","})
                     THEN Parse("testlist_rest", ts, Res(Tuplo(<<l.v>>), l.p, l.e))
                     ELSE l
      [] nt = "testlist_rest" ->
            IF a.p + 1 > Len(ts) \/ IsOp(ts, a.p + 1, {")"})
            THEN Res(a.v, a.p + 1, a.e)
            ELSE LET x == Parse("expr", ts, a.p + 1)
                     y == Res(Tuplo(Append(a.v.itens, x.v)), x.p,
                              IF a.e # "ok" THEN a.e ELSE x.e)
                 IN  IF x.e = "syntax" THEN x
                     ELSE IF IsOp(ts, x.p, {","}) THEN Parse("testlist_rest", ts, y)
                     ELSE y
      [] nt = "expr" ->
            LET l == Parse("term", ts, a)
            IN  IF l.e = "syntax" THEN l ELSE Parse("expr_rest", ts, l)
      [] nt = "expr_rest" ->
            IF IsOp(ts, a.p, {"+", "-"})
            THEN LET x == Junta(ts[a.p].s, a, Parse("term", ts, a.p + 1))
                 IN  IF x.e = "syntax" THEN x ELSE Parse("expr_rest", ts, x)
            ELSE a
      [] nt = "term" ->
            LET l == Parse("factor", ts, a)
            IN  IF l.e = "syntax" THEN l ELSE Parse("term_rest", ts, l)
      [] nt = "term_rest" ->
            IF IsOp(ts, a.p, {"*", "/", "//", "%"})
            THEN LET x == Junta(ts[a.p].s, a, Parse("factor", ts, a.p + 1))
                 IN  IF x.e = "syntax" THEN x ELSE Parse("term_rest", ts, x)
            ELSE a
      [] nt = "factor" ->
            IF IsOp(ts, a, {"+", "-"})
            THEN LET r == Parse("factor", ts, a + 1)
                 IN  IF r.e # "ok" THEN r
                     ELSE IF IsTuplo(r.v) \/ IsNone(r.v) THEN Res(None, r.p, "type")
                     ELSE IF ts[a].s = "-" THEN Res(PySub(IntV(0), r.v), r.p, "ok")
                     ELSE r
            ELSE Parse("power", ts, a)
      [] nt = "power" ->
            LET l == Parse("atom", ts, a)
            IN  IF l.e = "syntax" THEN l
                ELSE IF IsOp(ts, l.p, {"**"})
                     THEN Junta("**", l, Parse("factor", ts, l.p + 1))
                     ELSE l
      [] nt = "atom" ->
            IF a > Len(ts) THEN Res(None, a, "syntax")
            ELSE IF ts[a].k = "num" THEN Res(ts[a].v, a + 1, "ok")
            ELSE IF IsOp(ts, a, {"("}) /\ IsOp(ts, a + 1, {")"})
                 THEN Res(Tuplo(<<>>), a + 2, "ok")
            ELSE IF IsOp(ts, a, {"("})
                 THEN LET x == Parse("testlist", ts, a + 1)
                      IN  IF x.e = "syntax" THEN x
                          ELSE IF IsOp(ts, x.p, {")"}) THEN Res(x.v, x.p + 1, x.e)
                          ELSE Res(None, x.p, "syntax")
            ELSE Res(None, a, "syntax")

\* eval(cs): [v, e].
Eval(cs) ==
    LET ts == Tokens(cs, 1)
        x  == Parse("testlist", ts, 1)
    IN  IF x.e = "syntax" \/ x.p <= Len(ts) THEN [v |-> None, e |-> "syntax"]
        ELSE [v |-> x.v, e |-> x.e]

\* The text eval() is given: M and U replaced, then ^ replaced.
Substitui(cs) ==
    LET m == ReplaceChar(cs, "M", PyStr(memoria))
        u == ReplaceChar(m, "U", IF IsNone(ultimo_resultado) THEN IntChars(0)
                                 ELSE PyStr(ultimo_resultado))
    IN  ReplaceChar(u, "^", <<"*", "*">>)

\* Variant: the text is recorded as it was evaluated, with '**'.
CalcularExpressao_SemRestaurar(e) ==
    /\ pc = "expressao"
    /\ entrada' = e
    /\ LET digitada == Strip(LinhaChars(e))
       IN  IF digitada = <<>> THEN SoImprime("Expressao vazia!")
           ELSE LET expressao == Substitui(digitada)
                    r == Eval(expressao)
                IN  /\ r.e # "fora"
                    /\ IF r.e = "zero" THEN SoImprime("ERRO: Divisao por zero!")
                       ELSE IF r.e \in {"syntax", "type"}
                            THEN SoImprime("ERRO: Expressao invalida!")
                       ELSE IF r.v.t \in {"tuple", "none"}
                            THEN RegistraEFalha(ReplaceStarStar(expressao), r.v, "Expressao")
                       ELSE Conclui(expressao, r.v, "Expressao",
                                    FormatarNumero(r.v))

CalcularExpressao(e) ==
    /\ pc = "expressao"
    /\ entrada' = e
    /\ LET digitada == Strip(LinhaChars(e))
       IN  IF digitada = <<>> THEN SoImprime("Expressao vazia!")
           ELSE LET expressao == Substitui(digitada)
                    r == Eval(expressao)
                IN  /\ r.e # "fora"
                    /\ IF r.e = "zero" THEN SoImprime("ERRO: Divisao por zero!")
                       ELSE IF r.e \in {"syntax", "type"}
                            THEN SoImprime("ERRO: Expressao invalida!")
                       ELSE IF r.v.t \in {"tuple", "none"}
                            THEN RegistraEFalha(ReplaceStarStar(expressao), r.v, "Expressao")
                       ELSE Conclui(ReplaceStarStar(expressao), r.v, "Expressao",
                                    FormatarNumero(r.v))

(***************************************************************************)
(* The menu: one pass of the loop of Calculadora.executar.                 *)
(***************************************************************************)
\* The handler each operation option starts.
Operacoes == [o \in {"1", "2", "3", "4", "5", "6", "7", "8", "9", "E"} |->
    CASE o = "1" -> "somar"       [] o = "2" -> "subtrair"
      [] o = "3" -> "multiplicar" [] o = "4" -> "dividir"
      [] o = "5" -> "resto"       [] o = "6" -> "potencia"
      [] o = "7" -> "raiz"        [] o = "8" -> "porcentagem"
      [] o = "9" -> "fatorial"    [] o = "E" -> "expressao"]

\* Options 1-9 and E: the handler starts and blocks in its first prompt.
\* `limite` bounds the operations of a run.
MenuOperacao(e, limite) ==
    /\ pc = "menu"
    /\ Upper(e) \in DOMAIN Operacoes
    /\ prox_id < limite
    /\ entrada' = e
    /\ pc' = Operacoes[Upper(e)]
    /\ args' = <<>>
    /\ saida' = Msg("")
    /\ UNCHANGED <<memoria, ultimo_resultado, historico, total_operacoes,
                   relogio, prox_id, snapshot, h_log, h_ok>>

\* Option 0: the loop breaks.
Sair(e) ==
    /\ pc = "menu"
    /\ Upper(e) = "0"
    /\ entrada' = e
    /\ pc' = "done"
    /\ saida' = Msg("Obrigado por usar a Calculadora!")
    /\ UNCHANGED <<memoria, ultimo_resultado, historico, total_operacoes,
                   args, relogio, prox_id, snapshot, h_log, h_ok>>

\* Calculadora.exibir_historico (option H)
ExibirHistorico(e) ==
    /\ pc = "menu"
    /\ Upper(e) = "H"
    /\ entrada' = e
    /\ pc' = "pausa"
    /\ saida' = IF historico = <<>> THEN Msg("Nenhuma operacao no historico!")
                ELSE MsgTexto("Total de operacoes", IntChars(Len(historico)))
    /\ UNCHANGED <<memoria, ultimo_resultado, historico, total_operacoes,
                   args, relogio, prox_id, snapshot, h_log, h_ok>>

\* The dict `tipos` of exibir_estatisticas, as the list of its items: one
\* item per kind, in the order the kinds first occur in the history.
RECURSIVE TiposItems(_)
TiposItems(h) ==
    IF h = <<>> THEN <<>>
    ELSE LET d == TiposItems(SubSeq(h, 1, Len(h) - 1))
             tipo == h[Len(h)].tipo
         IN  IF \E i \in 1..Len(d) : d[i].tipo = tipo
             THEN [i \in 1..Len(d) |->
                     IF d[i].tipo = tipo
                     THEN [d[i] EXCEPT !.quantidade = d[i].quantidade + 1]
                     ELSE d[i]]
             ELSE Append(d, [tipo |-> tipo, quantidade |-> 1])

\* Variant: an ascending sort that is then reversed, which reverses the ties.
RECURSIVE SortedReverse_EmpatesInvertidos(_)
SortedReverse_EmpatesInvertidos(items) ==
    IF items = <<>> THEN <<>>
    ELSE LET s == SortedReverse_EmpatesInvertidos(SubSeq(items, 1, Len(items) - 1))
             x == items[Len(items)]
             k == Cardinality({i \in 1..Len(s) : s[i].quantidade > x.quantidade})
         IN  SubSeq(s, 1, k) \o <<x>> \o SubSeq(s, k + 1, Len(s))

\* sorted(items, key=lambda x: x[1], reverse=True): descending by count; the
\* sort is stable, so items of equal count keep the order they had.
RECURSIVE SortedReverse(_)
SortedReverse(items) ==
    IF items = <<>> THEN <<>>
    ELSE LET s == SortedReverse(SubSeq(items, 1, Len(items) - 1))
             x == items[Len(items)]
             k == Cardinality({i \in 1..Len(s) : s[i].quantidade >= x.quantidade})
         IN  SubSeq(s, 1, k) \o <<x>> \o SubSeq(s, k + 1, Len(s))

MsgEstatisticas == "Total de operacoes realizadas"

\* Calculadora.exibir_estatisticas (option S): the counters printed, and the
\* lines of "Operacoes por tipo" in the order they are printed.
ExibirEstatisticas(e) ==
    /\ pc = "menu"
    /\ Upper(e) = "S"
    /\ entrada' = e
    /\ pc' = "pausa"
    /\ saida' = [msg |-> MsgEstatisticas,
                 texto |-> IntChars(total_operacoes),
                 no_historico |-> Len(historico),
                 tipos |-> IF historico # <<>> THEN SortedReverse(TiposItems(historico))
                           ELSE <<>>]
    /\ UNCHANGED <<memoria, ultimo_resultado, historico, total_operacoes,
                   args, relogio, prox_id, snapshot, h_log, h_ok>>

\* Calculadora.salvar_historico (option G): nothing to save, or the prompt
\* for the file name.  The file written is outside the model.
SalvarHistorico(e) ==
    /\ pc = "menu"
    /\ Upper(e) = "G"
    /\ entrada' = e
    /\ IF historico = <<>>
       THEN pc' = "pausa" /\ saida' = Msg("Nenhuma operacao para salvar!")
       ELSE pc' = "salvar" /\ saida' = Msg("")
    /\ UNCHANGED <<memoria, ultimo_resultado, historico, total_operacoes,
                   args, relogio, prox_id, snapshot, h_log, h_ok>>

SalvarNome(e) ==
    /\ pc = "salvar"
    /\ entrada' = e
    /\ pc' = "pausa"
    /\ saida' \in {Msg("Historico salvo"), Msg("Erro ao salvar historico")}
    /\ UNCHANGED <<memoria, ultimo_resultado, historico, total_operacoes,
                   args, relogio, prox_id, snapshot, h_log, h_ok>>

\* Variant: the last result is cleared with the history.
LimparHistorico_LimpaUltimo(e) ==
    /\ pc = "menu"
    /\ Upper(e) = "C"
    /\ entrada' = e
    /\ historico' = <<>>
    /\ ultimo_resultado' = None
    /\ pc' = "pausa"
    /\ saida' = Msg("Historico limpo!")
    /\ h_log' = <<>>
    /\ UNCHANGED <<memoria, total_operacoes, args, relogio, prox_id, snapshot, h_ok>>

\* Calculadora.limpar_historico (option C)
LimparHistorico(e) ==
    /\ pc = "menu"
    /\ Upper(e) = "C"
    /\ entrada' = e
    /\ historico' = <<>>
    /\ pc' = "pausa"
    /\ saida' = Msg("Historico limpo!")
    /\ h_log' = <<>>
    /\ UNCHANGED <<memoria, ultimo_resultado, total_operacoes, args, relogio,
                   prox_id, snapshot, h_ok>>

\* Variant: the counter of operations survives the reset.
ResetarCalculadora_SemContador(e) ==
    /\ pc = "menu"
    /\ Upper(e) = "R"
    /\ entrada' = e
    /\ memoria' = FloatV(0, 1)
    /\ ultimo_resultado' = None
    /\ historico' = <<>>
    /\ pc' = "pausa"
    /\ saida' = Msg("Calculadora resetada!")
    /\ h_log' = <<>>
    /\ h_ok' = 0
    /\ UNCHANGED <<total_operacoes, args, relogio, prox_id, snapshot>>

\* Calculadora.resetar_calculadora (option R)
ResetarCalculadora(e) ==
    /\ pc = "menu"
    /\ Upper(e) = "R"
    /\ entrada' = e
    /\ memoria' = FloatV(0, 1)
    /\ ultimo_resultado' = None
    /\ historico' = <<>>
    /\ total_operacoes' = 0
    /\ pc' = "pausa"
    /\ saida' = Msg("Calculadora resetada!")
    /\ h_log' = <<>>
    /\ h_ok' = 0
    /\ UNCHANGED <<args, relogio, prox_id, snapshot>>

\* Any other line: the else branch.
OpcoesDoMenu == {"0", "1", "2", "3", "4", "5", "6", "7", "8", "9",
                 "E", "H", "M", "S", "G", "C", "R"}

OpcaoInvalida(e) ==
    /\ pc = "menu"
    /\ Upper(e) \notin OpcoesDoMenu
    /\ entrada' = e
    /\ pc' = "pausa"
    /\ saida' = Msg("Opcao invalida! Tente novamente.")
    /\ UNCHANGED <<memoria, ultimo_resultado, historico, total_operacoes,
                   args, relogio, prox_id, snapshot, h_log, h_ok>>

\* input("Pressione Enter para continuar..."): any line returns to the loop,
\* which clears the screen and prints the menu.
Pausa(e) ==
    /\ pc = "pausa"
    /\ entrada' = e
    /\ pc' = "menu"
    /\ saida' = Msg("menu")
    /\ UNCHANGED <<memoria, ultimo_resultado, historico, total_operacoes,
                   args, relogio, prox_id, snapshot, h_log, h_ok>>

(***************************************************************************)
(* Calculadora.gerenciar_memoria (option M).                               *)
(***************************************************************************)
GerenciarMemoria(e) ==
    /\ pc = "menu"
    /\ Upper(e) = "M"
    /\ entrada' = e
    /\ pc' = "memoria"
    /\ saida' = MsgTexto("Valor atual na memoria", FormatarNumero(memoria))
    /\ UNCHANGED <<memoria, ultimo_resultado, historico, total_operacoes,
                   args, relogio, prox_id, snapshot, h_log, h_ok>>

\* The option of the memory menu (compared as typed, not upper-cased).
MemoriaOpcao(e) ==
    /\ pc = "memoria"
    /\ entrada' = e
    /\ IF e \in {"1", "2", "3"}
       THEN /\ pc' = (CASE e = "1" -> "memoria_definir"
                        [] e = "2" -> "memoria_somar"
                        [] e = "3" -> "memoria_subtrair")
            /\ saida' = Msg("")
            /\ UNCHANGED memoria
       ELSE IF e = "4"
       THEN /\ memoria' = FloatV(0, 1)
            /\ pc' = "pausa"
            /\ saida' = Msg("Memoria limpa!")
       ELSE IF e = "5"
       THEN /\ pc' = "pausa"
            /\ saida' = MsgTexto("Use 'M' como entrada", FormatarNumero(memoria))
            /\ UNCHANGED memoria
       ELSE /\ pc' = "pausa"
            /\ saida' = Msg("")
            /\ UNCHANGED memoria
    /\ UNCHANGED <<ultimo_resultado, historico, total_operacoes, args, relogio,
                   prox_id, snapshot, h_log, h_ok>>

\* What options 1, 2 and 3 print once the value is read.
MsgMemoria(p) ==
    CASE p = "memoria_definir"  -> "Memoria definida para"
      [] p = "memoria_somar"    -> "Valor adicionado. Memoria atual"
      [] p = "memoria_subtrair" -> "Valor subtraido. Memoria atual"

\* Variant: option 3 subtracts the memory from the value.
MemoriaValor_SubtraiTrocado(e) ==
    /\ pc \in {"memoria_definir", "memoria_somar", "memoria_subtrair"}
    /\ entrada' = e
    /\ LET v == ObterNumero(e)
       IN  IF IsNone(v) THEN Rejeita(ErroNumero)
           ELSE LET nova == CASE pc = "memoria_definir"  -> v
                              [] pc = "memoria_somar"    -> PyAdd(memoria, v)
                              [] pc = "memoria_subtrair" -> PySub(v, memoria)
                IN  /\ Cabe(nova)
                    /\ memoria' = nova
                    /\ pc' = "pausa"
                    /\ saida' = MsgTexto(MsgMemoria(pc), FormatarNumero(nova))
                    /\ UNCHANGED <<ultimo_resultado, historico, total_operacoes,
                                   args, relogio, prox_id, snapshot, h_log, h_ok>>

\* The value read for options 1, 2 and 3.
MemoriaValor(e) ==
    /\ pc \in {"memoria_definir", "memoria_somar", "memoria_subtrair"}
    /\ entrada' = e
    /\ LET v == ObterNumero(e)
       IN  IF IsNone(v) THEN Rejeita(ErroNumero)
           ELSE LET nova == CASE pc = "memoria_definir"  -> v
                              [] pc = "memoria_somar"    -> PyAdd(memoria, v)
                              [] pc = "memoria_subtrair" -> PySub(memoria, v)
                IN  /\ Cabe(nova)
                    /\ memoria' = nova
                    /\ pc' = "pausa"
                    /\ saida' = MsgTexto(MsgMemoria(pc), FormatarNumero(nova))
                    /\ UNCHANGED <<ultimo_resultado, historico, total_operacoes,
                                   args, relogio, prox_id, snapshot, h_log, h_ok>>

(***************************************************************************)
(* main(): KeyboardInterrupt while blocked in any input() ends the program. *)
(* input() yields no line: `entrada` records the interrupt instead.        *)
(***************************************************************************)
Interrupcao ==
    /\ pc # "done"
    /\ entrada' = "^C"
    /\ pc' = "done"
    /\ saida' = Msg("Programa interrompido pelo usuario!")
    /\ UNCHANGED <<memoria, ultimo_resultado, historico, total_operacoes,
                   args, relogio, prox_id, snapshot, h_log, h_ok>>

(***************************************************************************)
(* The interactive program.                                                *)
(***************************************************************************)
\* The passing of time, seen by datetime.now().
Tique ==
    /\ relogio < MaxClock
    /\ relogio' = relogio + 1
    /\ UNCHANGED <<memoria, ultimo_resultado, historico, total_operacoes, pc,
                   args, entrada, saida, prox_id, snapshot, h_log, h_ok>>

\* The lines typed at each prompt.
LinhasMenu == {"0", "1", "2", "3", "4", "5", "6", "7", "8", "9",
               "e", "H", "m", "S", "G", "c", "R", "x"}
LinhasMemoria  == {"0", "1", "4", "5"}
LinhasValor    == {"2", "abc"}
LinhasSomar    == {"u", "2", "abc"}
LinhasSubtrair == {"M", "1"}
LinhasMultiplicar == {"U", "2"}
LinhasDividir  == {"2", "0", "M"}
LinhasResto    == {"3", "0.5", "2"}
LinhasPotencia == {"0", "-1", "2"}
LinhasRaiz     == {"-1", "u", "1"}
LinhasPorcentagem == {"100", "2"}
LinhasFatorial == {"-1", "21", "2", "u"}
LinhasExpressao == {"", "2 + 3 * 4", "5 / 0", "2 ^ 3", "M + 1", "U + 1", "2 +"}

Next ==
    \/ \E e \in LinhasMenu : MenuOperacao(e, MaxOps)
    \/ \E e \in LinhasMenu : Sair(e)
    \/ \E e \in LinhasMenu : ExibirHistorico(e)
    \/ \E e \in LinhasMenu : ExibirEstatisticas(e)
    \/ \E e \in LinhasMenu : SalvarHistorico(e)
    \/ \E e \in {"", "h"} : SalvarNome(e)
    \/ \E e \in LinhasMenu : LimparHistorico(e)
    \/ \E e \in LinhasMenu : ResetarCalculadora(e)
    \/ \E e \in LinhasMenu : OpcaoInvalida(e)
    \/ \E e \in LinhasMenu : GerenciarMemoria(e)
    \/ \E e \in LinhasMemoria : MemoriaOpcao(e)
    \/ \E e \in LinhasValor : MemoriaValor(e)
    \/ \E e \in LinhasSomar : Somar(e)
    \/ \E e \in LinhasSubtrair : Subtrair(e)
    \/ \E e \in LinhasMultiplicar : Multiplicar(e)
    \/ \E e \in LinhasDividir : Dividir(e)
    \/ \E e \in LinhasResto : RestoDivisao(e)
    \/ \E e \in LinhasPotencia : Potencia(e)
    \/ \E e \in LinhasRaiz : RaizQuadrada(e)
    \/ \E e \in LinhasPorcentagem : Porcentagem(e)
    \/ \E e \in LinhasFatorial : Fatorial(e)
    \/ \E e \in LinhasExpressao : CalcularExpressao(e)
    \/ Pausa("")
    \/ Interrupcao

Spec == Init /\ [][Next]_vars

(***************************************************************************)
(* Long runs: one operation repeated until the history overflows, with     *)
(* history clears and resets in between.                                   *)
(***************************************************************************)
NextHist ==
    \/ \E e \in {"1"} : MenuOperacao(e, MaxAppends)
    \/ \E e \in {"1"} : Somar(e)
    \/ \E e \in {"C"} : LimparHistorico(e)
    \/ \E e \in {"r"} : ResetarCalculadora(e)
    \/ Pausa("")

SpecHist == Init /\ [][NextHist]_vars

(***************************************************************************)
(* The memory register: every option of the memory menu, between           *)
(* operations that read the memory.                                        *)
(***************************************************************************)
LinhasMemoriaTodas == {"0", "1", "2", "3", "4", "5", "x"}
LinhasValorMem     == {"2", "3", "M", "abc"}

NextMem ==
    \/ \E e \in {"1", "E"} : MenuOperacao(e, MaxMemOps)
    \/ \E e \in {"M", "1"} : Somar(e)
    \/ \E e \in {"M + 1", "5 / 0"} : CalcularExpressao(e)
    \/ \E e \in {"m"} : GerenciarMemoria(e)
    \/ \E e \in LinhasMemoriaTodas : MemoriaOpcao(e)
    \/ \E e \in LinhasValorMem : MemoriaValor(e) /\ Abs(memoria'.n) <= MaxMem
    \/ Pausa("")

SpecMem == Init /\ [][NextMem]_vars

(***************************************************************************)
(* The expression evaluator: expressions of every kind, with the memory    *)
(* set to a negative or a positive number in between.                      *)
(***************************************************************************)
LinhasExpr == {"", "  ", "2 + 3 * 4", "5 / 0", "5 % 0", "2 ^ 3", "2 ** 2",
               "2 ^ 1 ^ 2", "8 - 4 - 2", "8 / 4 / 2", "8 % 5 % 2", "8 - 4 + 2",
               "8 / 4 * 2", "M + 1",
               "M ^ 2", "U + 1", "U ^ 2", "1 - 2", "2 +", "abc", "()", "1, 2",
               "None"}

NextExpr ==
    \/ \E e \in {"e"} : MenuOperacao(e, MaxExprOps)
    \/ \E e \in LinhasExpr : CalcularExpressao(e)
    \/ \E e \in {"M"} : GerenciarMemoria(e)
    \/ \E e \in {"1"} : MemoriaOpcao(e)
    \/ \E e \in {"-1", "2"} : MemoriaValor(e)
    \/ Pausa("")

SpecExpr == Init /\ [][NextExpr]_vars

(***************************************************************************)
(* Long runs with results that change: 1 - 1, then 1 - U again and again   *)
(* (0, 1, 0, 1, ...), with memory actions, history clears and resets.      *)
(***************************************************************************)
NextUlt ==
    \/ \E e \in {"2"} : MenuOperacao(e, MaxUltOps)
    \/ \E e \in {"1", "U"} :
          /\ Subtrair(e)
          /\ Len(args) = 0 => e = "1"
          /\ Len(args) = 1 => e = (IF IsNone(ultimo_resultado) THEN "1" ELSE "U")
    \/ \E e \in {"M"} : GerenciarMemoria(e)
    \/ \E e \in {"1", "4"} : MemoriaOpcao(e)
    \/ \E e \in {"2"} : MemoriaValor(e)
    \/ \E e \in {"C"} : LimparHistorico(e)
    \/ \E e \in {"R"} : ResetarCalculadora(e)
    \/ Pausa("")

SpecUlt == Init /\ [][NextUlt]_vars

(***************************************************************************)
(* A caller of the class that reads the `historico` property between two   *)
(* operations and then modifies what it was given.                         *)
(***************************************************************************)
\* Calculadora.historico: self._historico.copy(), a new list of the same dicts.
HistoricoCopy(h) == [i \in 1..Len(h) |-> h[i]]

ObterHistorico ==
    /\ pc = "menu"
    /\ snapshot' = HistoricoCopy(historico)
    /\ UNCHANGED <<memoria, ultimo_resultado, historico, total_operacoes, pc,
                   args, entrada, saida, relogio, prox_id, h_log, h_ok>>

\* The caller removes the first element of its list, or appends to it.
CallerPop ==
    /\ pc = "menu"
    /\ snapshot # <<>>
    /\ snapshot' = Tail(snapshot)
    /\ UNCHANGED <<memoria, ultimo_resultado, historico, total_operacoes, pc,
                   args, entrada, saida, relogio, prox_id, h_log, h_ok>>

CallerAppend ==
    /\ pc = "menu"
    /\ snapshot # <<>>
    /\ Len(snapshot) < MaxSnapOps
    /\ snapshot' = Append(snapshot, snapshot[1])
    /\ UNCHANGED <<memoria, ultimo_resultado, historico, total_operacoes, pc,
                   args, entrada, saida, relogio, prox_id, h_log, h_ok>>

\* d['resultado'] = v on the dict object `id`: every list that holds the
\* object sees the change.
SetResultado(lista, id, v) ==
    [i \in 1..Len(lista) |->
        IF lista[i].id = id THEN [lista[i] EXCEPT !.resultado = v] ELSE lista[i]]

\* The caller assigns to a field of an element of its list.
CallerSetCampo(i, v) ==
    /\ pc = "menu"
    /\ i \in 1..Len(snapshot)
    /\ snapshot[i].resultado # v
    /\ snapshot' = SetResultado(snapshot, snapshot[i].id, v)
    /\ historico' = SetResultado(historico, snapshot[i].id, v)
    /\ UNCHANGED <<memoria, ultimo_resultado, total_operacoes, pc, args,
                   entrada, saida, relogio, prox_id, h_log, h_ok>>

NextSnap ==
    \/ \E e \in {"1", "7"} : MenuOperacao(e, MaxSnapOps)
    \/ \E e \in {"1", "2"} : Somar(e)
    \/ \E e \in {"1"} : RaizQuadrada(e)
    \/ \E e \in {"c"} : LimparHistorico(e)
    \/ Pausa("")
    \/ Tique
    \/ ObterHistorico
    \/ CallerPop
    \/ CallerAppend
    \/ \E i \in 1..MaxSnapOps : CallerSetCampo(i, IntV(0))

SpecSnap == Init /\ [][NextSnap]_vars

(***************************************************************************)
(* What exibir_estatisticas reports of a session.                          *)
(***************************************************************************)
ContagemTipos(h) ==
    [t \in {h[i].tipo : i \in 1..Len(h)} |->
        Cardinality({i \in 1..Len(h) : h[i].tipo = t})]

Estatisticas ==
    [total_operacoes |-> total_operacoes,
     no_historico    |-> Len(historico),
     ultimo          |-> ultimo_resultado,
     memoria         |-> memoria,
     tipos           |-> ContagemTipos(historico)]

(***************************************************************************)
(* Properties.                                                             *)
(***************************************************************************)
Min(a, b) == IF a < b THEN a ELSE b
Ultima(h) == h[Len(h)]

\* C1: in every reachable state the history holds at most 50 entries.
C1_HistoricoLimitado == Len(historico) <= 50

\* C1 witness: the history is full and an entry has been evicted.
C1_Witness == Len(historico) = 50 /\ Len(h_log) > 50

\* C2: after n operations with no clear or reset in between, the history
\* is exactly the last min(n, 50) entries appended, in insertion order.
C2_FIFO ==
    LET n == Len(h_log)
        k == Min(n, 50)
    IN  historico = SubSeq(h_log, n - k + 1, n)

\* C2 witness: 60 appends, the history holds entries 11..60.
C2_Witness ==
    /\ Len(h_log) = 60
    /\ Len(historico) = 50
    /\ historico[1] = h_log[11]
    /\ historico[50] = h_log[60]

OpPcs == {"somar", "subtrair", "multiplicar", "dividir", "resto", "potencia",
          "raiz", "porcentagem", "fatorial", "expressao"}

TipoDe(p) ==
    CASE p = "somar"       -> "Soma"
      [] p = "subtrair"    -> "Subtracao"
      [] p = "multiplicar" -> "Multiplicacao"
      [] p = "dividir"     -> "Divisao"
      [] p = "resto"       -> "Resto Divisao"
      [] p = "potencia"    -> "Potencia"
      [] p = "raiz"        -> "Raiz Quadrada"
      [] p = "porcentagem" -> "Porcentagem"
      [] p = "fatorial"    -> "Fatorial"
      [] p = "expressao"   -> "Expressao"

\* r is the value the operation of handler p has for the operands read:
\* a is the first operand (of a binary operation), v the last one, and
\* `linha` the line typed (for an expression).  Stated on numerators and
\* denominators, not with the arithmetic of the handlers.
ValorCerto(p, a, v, linha, r) ==
    CASE p = "somar"       -> r.n * a.d * v.d = (a.n * v.d + v.n * a.d) * r.d
      [] p = "subtrair"    -> r.n * a.d * v.d = (a.n * v.d - v.n * a.d) * r.d
      [] p = "multiplicar" -> r.n * a.d * v.d = a.n * v.n * r.d
      [] p = "dividir"     -> r.n * a.d * v.n = a.n * v.d * r.d
      [] p = "porcentagem" -> r.n * 100 * a.d * v.d = a.n * v.n * r.d
      [] p = "raiz"        -> r.n >= 0 /\ r.n * r.n * v.d = v.n * r.d * r.d
      [] p = "resto"       ->
            LET b == PyInt(v).n
            IN  /\ r.d = 1
                /\ Abs(r.n) < Abs(b)
                /\ r.n = 0 \/ (r.n < 0 <=> b < 0)
                /\ \E q \in -(Abs(a.n) + 1)..(Abs(a.n) + 1) : a.n = q * b + r.n
      [] p = "potencia"    ->
            IF v.n >= 0 THEN r.n * IPow(a.d, v.n) = IPow(a.n, v.n) * r.d
            ELSE r.n * IPow(a.n, -v.n) = IPow(a.d, -v.n) * r.d
      [] p = "fatorial"    ->
            r.d = 1 /\ r.n = Fact(PyInt(v).n)
      [] p = "expressao"   ->
            LET u == IF IsNone(ultimo_resultado) THEN IntV(0) ELSE ultimo_resultado
            IN  CASE linha = "M + 1" -> r.n * memoria.d = (memoria.n + memoria.d) * r.d
                  [] linha = "U + 1" -> r.n * u.d = (u.n + u.d) * r.d
                  [] linha = "2 + 3 * 4" -> r = IntV(14)
                  [] linha = "2 ^ 3" -> r = IntV(8)
                  [] OTHER -> TRUE

\* C4: every operation that completes appends exactly one entry, whose
\* result is the value computed and whose kind is the operation's, sets
\* ultimo_resultado to that value and adds 1 to total_operacoes.
C4_OperacaoRegistra ==
    [][ (pc \in OpPcs /\ pc' = "pausa" /\ saida'.msg = "RESULTADO") =>
          /\ Len(historico') = Len(historico) + 1
          /\ SubSeq(historico', 1, Len(historico)) = historico
          /\ Ultima(historico').tipo = TipoDe(pc)
          /\ ValorCerto(pc, IF args = <<>> THEN None ELSE args[1],
                        IF pc = "expressao" THEN None ELSE ObterNumero(entrada'),
                        entrada', Ultima(historico').resultado)
          /\ ultimo_resultado' = Ultima(historico').resultado
          /\ total_operacoes' = total_operacoes + 1 ]_vars

\* C4 witness: a second operation, 2 + 2, has been recorded.
C4_Witness ==
    /\ pc = "pausa"
    /\ saida.msg = "RESULTADO"
    /\ Len(historico) = 2
    /\ historico[2].tipo = "Soma"
    /\ historico[2].resultado = IntV(4)
    /\ ultimo_resultado = IntV(4)
    /\ total_operacoes = 2

\* The line read is a valid operand and its value is zero / negative.
LeZero(linha)     == ~IsNone(ObterNumero(linha)) /\ IsZero(ObterNumero(linha))
LeNegativo(linha) == ~IsNone(ObterNumero(linha)) /\ ObterNumero(linha).n < 0

C6_Fatorial21Sucede ==
    [][ (pc = "fatorial" /\ entrada' = "21") =>
          /\ pc' = "pausa"
          /\ Len(historico') = Len(historico) + 1
          /\ Ultima(historico').tipo = "Fatorial" ]_vars

\* C6 (amended): a factorial operand above 20 is not accepted: the warning
\* is printed and the operand is asked for again, with no entry appended and
\* ultimo_resultado and total_operacoes unchanged.
C6_FatorialAcima20 ==
    [][ (pc = "fatorial" /\ ~IsNone(ObterNumero(entrada'))
           /\ PyInt(ObterNumero(entrada')).n > 20) =>
          /\ saida'.msg = AvisoFat
          /\ pc' = pc
          /\ UNCHANGED <<historico, ultimo_resultado, total_operacoes>> ]_vars

\* C6 witness: Factorial warned about 21 and is asking again.
C6_Witness ==
    /\ pc = "fatorial"
    /\ saida.msg = AvisoFat
    /\ entrada = "21"

\* C7: a negative operand of SquareRoot or Factorial gives the error for
\* negative input; no entry is appended and ultimo_resultado and
\* total_operacoes are unchanged.
C7_OperandoNegativo ==
    [][ /\ (pc = "raiz" /\ LeNegativo(entrada')) =>
              /\ saida'.msg = ErroRaiz
              /\ pc' = pc
              /\ UNCHANGED <<historico, ultimo_resultado, total_operacoes>>
        /\ (pc = "fatorial" /\ LeNegativo(entrada') /\ PyInt(ObterNumero(entrada')).n < 0) =>
              /\ saida'.msg = ErroFat
              /\ pc' = pc
              /\ UNCHANGED <<historico, ultimo_resultado, total_operacoes>> ]_vars

\* C7 witness: Factorial refused -1 after an operation was recorded.
C7_Witness ==
    /\ pc = "fatorial"
    /\ saida.msg = ErroFat
    /\ entrada = "-1"
    /\ Len(historico) = 1

\* C8: a reset gives every field its initial value, the statistics are those
\* of a new session, and the program goes on.
C8_ResetRestaura ==
    [][ (pc = "menu" /\ Upper(entrada') = "R") =>
          /\ memoria' = FloatV(0, 1)
          /\ ultimo_resultado' = None
          /\ historico' = <<>>
          /\ total_operacoes' = 0
          /\ Estatisticas' = [total_operacoes |-> 0, no_historico |-> 0,
                              ultimo |-> None, memoria |-> FloatV(0, 1),
                              tipos |-> <<>>]
          /\ pc' = "pausa" ]_vars

\* C8 witness: the reset was done with a memory set and two operations made.
C8_Witness ==
    /\ saida.msg = "Calculadora resetada!"
    /\ prox_id = 2
    /\ total_operacoes = 0
    /\ historico = <<>>

\* C9: clearing the history empties it and leaves memory, ultimo_resultado
\* and total_operacoes as they were.
C9_LimparSoHistorico ==
    [][ (pc = "menu" /\ Upper(entrada') = "C") =>
          /\ historico' = <<>>
          /\ UNCHANGED <<memoria, ultimo_resultado, total_operacoes>> ]_vars

\* C9 witness: the history was cleared with a memory, a result and a count.
C9_Witness ==
    /\ saida.msg = "Historico limpo!"
    /\ historico = <<>>
    /\ memoria = IntV(2)
    /\ ~IsNone(ultimo_resultado)
    /\ total_operacoes = 2

\* C10 (as claimed): nothing a caller does to the list the historico
\* property gave it changes the history of the session.
C10_SnapshotIsolado ==
    [][ snapshot' # snapshot => historico' = historico ]_vars

\* The steps of the memory menu.
MemPcs == {"memoria", "memoria_definir", "memoria_somar", "memoria_subtrair"}

\* C11: the memory menu changes nothing but the memory: with a valid value v
\* read, option 1 makes memoria = v, option 2 memoria = old + v, option 3
\* memoria = old - v; option 4 makes it 0; option 5, option 0 and any other
\* line leave it alone; history, ultimo_resultado and total_operacoes never
\* change there, and no step of an operation handler changes memoria.
C11_SoMemoria ==
    [][ LET v == ObterNumero(entrada')
            m == memoria
            n == memoria'
        IN  /\ (pc = "menu" /\ Upper(entrada') = "M") => UNCHANGED memoria
            /\ (pc \in MemPcs) =>
                  UNCHANGED <<historico, ultimo_resultado, total_operacoes>>
            /\ (pc = "memoria" /\ entrada' = "4") => (n.n = 0 /\ ~IsNone(n))
            /\ (pc = "memoria" /\ entrada' # "4") => UNCHANGED memoria
            /\ (pc \in MemPcs \ {"memoria"} /\ IsNone(v)) => UNCHANGED memoria
            /\ (pc = "memoria_definir" /\ ~IsNone(v)) => n = v
            /\ (pc = "memoria_somar" /\ ~IsNone(v)) =>
                  n.n * m.d * v.d = (m.n * v.d + v.n * m.d) * n.d
            /\ (pc = "memoria_subtrair" /\ ~IsNone(v)) =>
                  n.n * m.d * v.d = (m.n * v.d - v.n * m.d) * n.d
            /\ (pc \in OpPcs) => UNCHANGED memoria ]_vars

\* C11 witness: with an operation recorded, 2 was subtracted from a memory
\* of 3, leaving 1.
C11_Witness ==
    /\ pc = "pausa"
    /\ saida.msg = MsgMemoria("memoria_subtrair")
    /\ entrada = "2"
    /\ memoria.n = 1 /\ memoria.d = 1
    /\ Len(historico) = 1
    /\ total_operacoes = 1

\* C12 (as claimed): a successful evaluation of an expression with M as an
\* operand gives the value of the expression with the memory m as that
\* operand, for every m: "M + 1" gives m + 1 and "M ^ 2" gives m * m; and
\* "2 ^ 3" gives 8 and "2 + 3 * 4" gives 14.
C12_MComoOperando ==
    [][ (pc = "expressao" /\ saida'.msg = "RESULTADO") =>
          LET r == Ultima(historico').resultado
              m == memoria
          IN  /\ entrada' = "M + 1" => r.n * m.d = (m.n + m.d) * r.d
              /\ entrada' = "M ^ 2" => r.n * m.d * m.d = m.n * m.n * r.d
              /\ entrada' = "2 ^ 3" => r = IntV(8)
              /\ entrada' = "2 + 3 * 4" => r = IntV(14) ]_vars

\* The chains of two operators of the same precedence typed in SpecExpr:
\* <<a, op1, b, op2, c>>.
Cadeias == {"8 - 4 - 2", "8 - 4 + 2", "8 / 4 / 2", "8 / 4 * 2", "8 % 5 % 2",
            "2 ^ 1 ^ 2"}
Cadeia(linha) ==
    CASE linha = "8 - 4 - 2" -> <<8, "-", 4, "-", 2>>
      [] linha = "8 - 4 + 2" -> <<8, "-", 4, "+", 2>>
      [] linha = "8 / 4 / 2" -> <<8, "/", 4, "/", 2>>
      [] linha = "8 / 4 * 2" -> <<8, "/", 4, "*", 2>>
      [] linha = "8 % 5 % 2" -> <<8, "%", 5, "%", 2>>
      [] linha = "2 ^ 1 ^ 2" -> <<2, "**", 1, "**", 2>>

\* (a op1 b) op2 c and a op1 (b op2 c).
EsquerdaPrimeiro(linha) ==
    LET c == Cadeia(linha)
    IN  AplicaNumeros(c[4], AplicaNumeros(c[2], IntV(c[1]), IntV(c[3])).v, IntV(c[5])).v
DireitaPrimeiro(linha) ==
    LET c == Cadeia(linha)
    IN  AplicaNumeros(c[2], IntV(c[1]), AplicaNumeros(c[4], IntV(c[3]), IntV(c[5])).v).v

\* C13 (as claimed): a chain of operators of the same precedence is
\* evaluated left to right, for + - * / % and for the exponent operator:
\* "a op b op c" has the value of "(a op b) op c".
C13_EsquerdaParaDireita ==
    [][ (pc = "expressao" /\ entrada' \in Cadeias) =>
          /\ saida'.msg = "RESULTADO"
          /\ Ultima(historico').resultado = EsquerdaPrimeiro(entrada') ]_vars

\* C13 (amended): chains of + - and of * / % are evaluated left to right;
\* a chain of exponent operators is evaluated right to left: "a ^ b ^ c" has
\* the value of "a ^ (b ^ c)".
C13_Associatividade ==
    [][ (pc = "expressao" /\ entrada' \in Cadeias) =>
          /\ saida'.msg = "RESULTADO"
          /\ Ultima(historico').resultado =
                IF Cadeia(entrada')[2] = "**" THEN DireitaPrimeiro(entrada')
                ELSE EsquerdaPrimeiro(entrada') ]_vars

\* C13 witness: "8 / 4 / 2" gave 1.0 and then "2 ^ 1 ^ 2" gave 2.
C13_Witness ==
    /\ pc = "pausa"
    /\ entrada = "2 ^ 1 ^ 2"
    /\ saida.msg = "RESULTADO"
    /\ Len(historico) = 2
    /\ historico[1].resultado = FloatV(1, 1)
    /\ historico[2].resultado = IntV(2)

\* The text of the expression before '^' is replaced by '**': the line
\* typed, stripped, with M and U replaced.
AntesDaTraducao(linha) ==
    ReplaceChar(ReplaceChar(Strip(LinhaChars(linha)), "M", PyStr(memoria)), "U",
                IF IsNone(ultimo_resultado) THEN <<"0">> ELSE PyStr(ultimo_resultado))

TemEstrelas(cs) == \E i \in 1..(Len(cs) - 1) : cs[i] = "*" /\ cs[i + 1] = "*"

\* C14 (as claimed): the text recorded for a successful evaluation is the
\* text the expression had before '^' was replaced by '**', for every input,
\* also one in which '**' was typed.
C14_TextoOriginal ==
    [][ (pc = "expressao" /\ saida'.msg = "RESULTADO") =>
          Ultima(historico').expressao = AntesDaTraducao(entrada') ]_vars

\* C14 (amended): the text recorded has '^' for every exponent sign: it has
\* no '**', it is the text before the replacement when that text has no
\* '**', and a '**' that was typed is recorded as '^'.
C14_TextoComCircunflexo ==
    [][ (pc = "expressao" /\ saida'.msg = "RESULTADO") =>
          LET st  == Ultima(historico').expressao
              pre == AntesDaTraducao(entrada')
          IN  /\ ~TemEstrelas(st)
              /\ ~TemEstrelas(pre) => st = pre
              /\ entrada' = "2 ** 2" => st = <<"2", " ", "^", " ", "2">> ]_vars

\* C14 witness: "2 ** 2" was evaluated and recorded as "2 ^ 2".
C14_Witness ==
    /\ pc = "pausa"
    /\ entrada = "2 ** 2"
    /\ saida.msg = "RESULTADO"
    /\ Ultima(historico).expressao = <<"2", " ", "^", " ", "2">>

\* C17 (as claimed): an evaluation that ends in an error (an empty line, a
\* division or modulo by zero, a malformed expression) appends no entry and
\* leaves memoria, ultimo_resultado and total_operacoes as they were; the
\* program goes on to the pause and the menu.
C17_FalhaNaoMudaEstado ==
    [][ (pc = "expressao" /\ saida'.msg # "RESULTADO") =>
          /\ pc' = "pausa"
          /\ UNCHANGED <<historico, memoria, ultimo_resultado, total_operacoes>> ]_vars

\* C18 (as claimed): with no result yet, U in an expression is evaluated as 0
\* and the evaluation succeeds; with a result u, U is evaluated as u, the
\* value ultimo_resultado had before the evaluation: "U + 1" gives u + 1 and
\* "U ^ 2" gives u * u.
C18_UComoUltimo ==
    [][ (pc = "expressao" /\ entrada' \in {"U + 1", "U ^ 2"}) =>
          LET u == IF IsNone(ultimo_resultado) THEN IntV(0) ELSE ultimo_resultado
              r == Ultima(historico').resultado
          IN  /\ IsNone(ultimo_resultado) => saida'.msg = "RESULTADO"
              /\ (saida'.msg = "RESULTADO" /\ entrada' = "U + 1") =>
                    r.n * u.d = (u.n + u.d) * r.d
              /\ (saida'.msg = "RESULTADO" /\ entrada' = "U ^ 2") =>
                    r.n * u.d * u.d = u.n * u.n * r.d ]_vars

\* The statistics are on the screen: nothing has changed since they were printed.
EstatisticasNaTela == pc = "pausa" /\ saida.msg = MsgEstatisticas

\* The order of the kind names as Python compares the strings of the source.
OrdemNome(t) ==
    CASE t = "Divisao" -> 1       [] t = "Expressao" -> 2
      [] t = "Fatorial" -> 3      [] t = "Multiplicacao" -> 4
      [] t = "Porcentagem" -> 5   [] t = "Potencia" -> 6
      [] t = "Raiz Quadrada" -> 7 [] t = "Resto Divisao" -> 8
      [] t = "Soma" -> 9          [] t = "Subtracao" -> 10

RECURSIVE SomaQuantidades(_)
SomaQuantidades(l) == IF l = <<>> THEN 0 ELSE l[1].quantidade + SomaQuantidades(Tail(l))

\* Each kind of the history is listed once, with the number of entries of
\* that kind now in the history, and the counts add up to its length.
ContagemDoHistorico(l) ==
    /\ {l[i].tipo : i \in 1..Len(l)} = {historico[j].tipo : j \in 1..Len(historico)}
    /\ \A i, j \in 1..Len(l) : l[i].tipo = l[j].tipo => i = j
    /\ \A i \in 1..Len(l) :
          l[i].quantidade = Cardinality({j \in 1..Len(historico) : historico[j].tipo = l[i].tipo})
    /\ SomaQuantidades(l) = Len(historico)
    /\ saida.no_historico = Len(historico)

PrimeiraOcorrencia(t) ==
    CHOOSE j \in 1..Len(historico) :
        historico[j].tipo = t /\ \A k \in 1..(j - 1) : historico[k].tipo # t

PcsNumero == (OpPcs \ {"expressao"}) \cup (MemPcs \ {"memoria"})

EndsWith(cs, fim) ==
    Len(cs) >= Len(fim) /\ SubSeq(cs, Len(cs) - Len(fim) + 1, Len(cs)) = fim

\* The step taken at prompt pc used the number v as the operand read: it is
\* not refused as an invalid number; as a first operand it is kept (as an
\* integer by resto); as the last operand of an operation that completes it
\* is the operand shown in the expression recorded; as the value of the
\* memory option 1 it becomes the memory.
OperandoFoi(v) ==
    /\ saida'.msg # ErroNumero
    /\ (pc \in {"somar", "subtrair", "multiplicar", "dividir", "potencia",
                "porcentagem"} /\ Len(args) = 0) => args' = <<v>>
    /\ (pc = "resto" /\ Len(args) = 0) => args' = <<PyInt(v)>>
    /\ (pc \in OpPcs /\ saida'.msg = "RESULTADO") =>
          LET texto == Ultima(historico').expressao
          IN  IF pc = "fatorial" THEN texto = IntChars(PyInt(v).n) \o <<"!">>
              ELSE IF pc = "resto" THEN EndsWith(texto, IntChars(PyInt(v).n))
              ELSE EndsWith(texto, FormatarNumero(v))
    /\ pc = "memoria_definir" => memoria' = v

\* C16: at an operand prompt M is always read as the memory; U is read as
\* ultimo_resultado when there is one; with no result yet U is refused as an
\* invalid number and the operand is asked for again, with nothing changed.
C16_OperandoMU ==
    [][ (pc \in PcsNumero) =>
          /\ Upper(entrada') = "M" => OperandoFoi(memoria)
          /\ (Upper(entrada') = "U" /\ ~IsNone(ultimo_resultado)) =>
                OperandoFoi(ultimo_resultado)
          /\ (Upper(entrada') = "U" /\ IsNone(ultimo_resultado)) =>
                /\ saida'.msg = ErroNumero
                /\ UNCHANGED <<pc, args, memoria, ultimo_resultado, historico,
                               total_operacoes>> ]_vars

\* C16 witness: with a memory of 2 and no result yet, the second operand of
\* a sum was typed as U and refused; the first operand is still held.
C16_Witness ==
    /\ pc = "somar"
    /\ entrada = "u"
    /\ saida.msg = ErroNumero
    /\ IsNone(ultimo_resultado)
    /\ memoria = IntV(2)
    /\ Len(args) = 1

\* C19 (as claimed): the loop ends only when option 0 is chosen at the menu
\* or on an interrupt; an unrecognized option changes nothing and goes back
\* to the menu through the pause.
C19_SoSaiPorOpcao ==
    [][ /\ (pc # "done" /\ pc' = "done") =>
              (pc = "menu" /\ Upper(entrada') = "0") \/ entrada' = "^C"
        /\ (pc = "menu" /\ entrada' # "^C" /\ Upper(entrada') \notin OpcoesDoMenu) =>
              /\ pc' = "pausa"
              /\ UNCHANGED <<memoria, ultimo_resultado, historico, total_operacoes>>
      ]_vars

\* C20: whenever the history is not empty, ultimo_resultado is the result of
\* its newest entry, also after evictions, memory actions, clears and resets.
C20_UltimoEhONovo ==
    historico # <<>> => ultimo_resultado = Ultima(historico).resultado

\* C20 witness: entries have been evicted from a full history, the memory
\* has been set, and the newest result differs from the one before it.
C20_Witness ==
    /\ Len(historico) = 50
    /\ Len(h_log) > 50
    /\ memoria = IntV(2)
    /\ ultimo_resultado = historico[50].resultado
    /\ historico[49].resultado # historico[50].resultado
    /\ historico[1].resultado # historico[50].resultado

\* C21 (as claimed): ultimo_resultado is None exactly when total_operacoes
\* is 0; the memory menu and the clearing of the history change neither.
C21_UltimoSseZero ==
    [][ /\ IsNone(ultimo_resultado') <=> total_operacoes' = 0
        /\ (pc \in MemPcs \/ (pc = "menu" /\ Upper(entrada') \in {"C", "M"})) =>
              UNCHANGED <<ultimo_resultado, total_operacoes>> ]_vars

\* C22 (as claimed): the history is never longer than total_operacoes, and
\* its length is min(50, k), k being the number of operations that succeeded
\* since the history was last emptied (by a clear, a reset or the start).
C22_ComprimentoDoHistorico ==
    /\ Len(historico) <= total_operacoes
    /\ Len(historico) = Min(50, Len(h_log))

====
